---- MODULE Spec2Model ----
(***************************************************************************)
(* The content-metrics pipeline of the AI-vs-Human dashboard repository:   *)
(* the cleaning pass of load_dataset (dashboard.py) and of                 *)
(* load_and_analyze_data (dashboard_analysis_report.py), the sidebar       *)
(* filters and the group-by views of the dashboard's main, and the         *)
(* load / assemble / save steps of the report generator's main.            *)
(*                                                                         *)
(* A data frame is a record [cols, index, rows]: cols is the set of column *)
(* names, index the sequence of row labels, rows the sequence of rows,     *)
(* each row a function from cols to cell values.                           *)
(*                                                                         *)
(* Cell encodings.  A missing numeric cell (NaN) is NaN; a raw date cell   *)
(* is the tuple <<day, month, year>> of the three "-"-separated fields of  *)
(* the text, or <<>> for an empty cell; a parsed date is an integer        *)
(* that orders as the calendar does, or NaT; a text cell of Author_Type is *)
(* the sequence of its characters, the raw empty cell (read as NaN by      *)
(* read_csv) being NoText; a Content_Type cell is a string, the empty      *)
(* cell being NoContent.                                                   *)
(***************************************************************************)
EXTENDS Integers, Sequences, FiniteSets, TLC

\* ------------------------------------------------------------------ bounds
MaxRows == 2

\* --------------------------------------------------------------- encodings
NaN == -1
NaT == -1
NoText == <<>>
NoContent == ""
NoDate == -2
NoFrame == [none |-> TRUE]
NoInsights == [none |-> TRUE]

Columns ==
  {"Date", "Author_Type", "Content_Type", "Likes", "Comments", "Shares",
   "Engagement_Score"}

\* ------------------------------------------------------------ pure helpers
RECURSIVE SumSeq(_)
SumSeq(s) == IF s = <<>> THEN 0 ELSE Head(s) + SumSeq(Tail(s))

\* The elements of s at the positions in keep, in the order of s.
RECURSIVE PickFrom(_, _, _)
PickFrom(s, keep, i) ==
  IF i > Len(s) THEN <<>>
  ELSE IF i \in keep THEN <<s[i]>> \o PickFrom(s, keep, i + 1)
  ELSE PickFrom(s, keep, i + 1)

Pick(s, keep) == PickFrom(s, keep, 1)

\* ---------------------------------------------------------- date parsing
\* pd.to_datetime(..., format="%d-%m-%Y", errors="coerce")
IsLeap(y) == (y % 4 = 0 /\ y % 100 # 0) \/ y % 400 = 0

DaysInMonth(m, y) ==
  IF m = 2 THEN (IF IsLeap(y) THEN 29 ELSE 28)
  ELSE IF m \in {4, 6, 9, 11} THEN 30 ELSE 31

to_datetime(v) ==
  IF Len(v) # 3 THEN NaT
  ELSE LET d == v[1]
           m == v[2]
           y == v[3]
       IN IF /\ y \in 1678..2261
             /\ m \in 1..12
             /\ d \in 1..DaysInMonth(m, y)
          THEN (y * 12 + (m - 1)) * 31 + (d - 1)
          ELSE NaT

\* ------------------------------------------------- author-type normalising
\* .astype(str).str.strip().str.title()
Lowers == <<"a", "h", "i", "m", "n", "u">>
Uppers == <<"A", "H", "I", "M", "N", "U">>

IsLower(c) == \E k \in 1..Len(Lowers) : Lowers[k] = c
IsUpper(c) == \E k \in 1..Len(Uppers) : Uppers[k] = c
IsLetter(c) == IsLower(c) \/ IsUpper(c)
upper(c) ==
  IF IsLower(c) THEN Uppers[CHOOSE k \in 1..Len(Lowers) : Lowers[k] = c] ELSE c
lower(c) ==
  IF IsUpper(c) THEN Lowers[CHOOSE k \in 1..Len(Uppers) : Uppers[k] = c] ELSE c

astype_str(v) == IF v = NoText THEN <<"n", "a", "n">> ELSE v

RECURSIVE lstrip(_)
lstrip(s) ==
  IF s # <<>> /\ Head(s) = " " THEN lstrip(Tail(s)) ELSE s

RECURSIVE rstrip(_)
rstrip(s) ==
  IF s # <<>> /\ s[Len(s)] = " " THEN rstrip(SubSeq(s, 1, Len(s) - 1)) ELSE s

strip(s) == rstrip(lstrip(s))

\* str.title(): a letter that follows a non-letter is upper-cased, a letter
\* that follows a letter is lower-cased.
title(s) ==
  [i \in 1..Len(s) |->
     IF i > 1 /\ IsLetter(s[i - 1]) THEN lower(s[i]) ELSE upper(s[i])]

NormAuthor(v) == title(strip(astype_str(v)))

\* ------------------------------------------------------- engagement score
fillna0(x) == IF x = NaN THEN 0 ELSE x

\* The weights of comments and shares exchanged.
EngagementScore_swapped(r) ==
  fillna0(r["Likes"]) + fillna0(r["Comments"]) * 3 + fillna0(r["Shares"]) * 2

EngagementScore(r) ==
  fillna0(r["Likes"]) + fillna0(r["Comments"]) * 2 + fillna0(r["Shares"]) * 3

\* ------------------------------------------------------------ data frames
\* df[c] = f(row) for every row; c is added to the columns when it is new.
Assign(df, c, f(_)) ==
  [cols  |-> df.cols \cup {c},
   index |-> df.index,
   rows  |-> [i \in 1..Len(df.rows) |->
                [k \in df.cols \cup {c} |->
                   IF k = c THEN f(df.rows[i]) ELSE df.rows[i][k]]]]

\* The kept rows in reverse order.
Loc_reversed(df, keep) ==
  LET idx == Pick(df.index, keep)
      rws == Pick(df.rows, keep)
  IN [cols  |-> df.cols,
      index |-> [i \in 1..Len(idx) |-> idx[Len(idx) + 1 - i]],
      rows  |-> [i \in 1..Len(rws) |-> rws[Len(rws) + 1 - i]]]

\* df.loc[mask] / df[mask]: the rows at the positions in keep, labels kept.
Loc(df, keep) ==
  [cols  |-> df.cols,
   index |-> Pick(df.index, keep),
   rows  |-> Pick(df.rows, keep)]

\* Duplicates left in.
drop_duplicates_skipped(df) == df

\* DataFrame.drop_duplicates(): keep="first".
FirstOccurrences(rows) ==
  {i \in 1..Len(rows) : \A j \in 1..(i - 1) : rows[j] # rows[i]}

drop_duplicates(df) ==
  Loc(df, FirstOccurrences(df.rows))

\* DataFrame.reset_index(drop=True)
reset_index(df) ==
  [cols  |-> df.cols,
   index |-> [i \in 1..Len(df.rows) |-> i - 1],
   rows  |-> df.rows]

ParseDateStep(df) ==
  IF "Date" \in df.cols
  THEN Assign(df, "Date", LAMBDA r : to_datetime(r["Date"]))
  ELSE df

AuthorStep(df) ==
  IF "Author_Type" \in df.cols
  THEN Assign(df, "Author_Type", LAMBDA r : NormAuthor(r["Author_Type"]))
  ELSE df

\* The score recomputed only where the input already stores one.
ScoreStep_only_stored(df) ==
  IF {"Likes", "Comments", "Shares", "Engagement_Score"} \subseteq df.cols
  THEN Assign(df, "Engagement_Score", EngagementScore)
  ELSE df

ScoreStep(df) ==
  IF {"Likes", "Comments", "Shares"} \subseteq df.cols
  THEN Assign(df, "Engagement_Score", EngagementScore)
  ELSE df

\* The cleaning block after read_csv.
Clean(df) == reset_index(drop_duplicates(ScoreStep(AuthorStep(ParseDateStep(df)))))

\* -------------------------------------------------------------- group-by
\* A missing key value: groupby drops the rows that have one (dropna=True).
IsNullKey(c, v) ==
  CASE c = "Date" -> v = NaT
    [] c = "Content_Type" -> v = NoContent
    [] c = "Author_Type" -> FALSE
    [] OTHER -> v = NaN

KeyOf(r, keys) == [k \in 1..Len(keys) |-> r[keys[k]]]

HasNullKey(r, keys) == \E k \in 1..Len(keys) : IsNullKey(keys[k], r[keys[k]])

\* The metric values of the rows of one group, missing values skipped.
GroupValues(rows, keys, metric, key) ==
  LET idx == {i \in 1..Len(rows) :
                /\ KeyOf(rows[i], keys) = key
                /\ rows[i][metric] # NaN}
  IN Pick([i \in 1..Len(rows) |-> rows[i][metric]], idx)

\* dropna=False: the rows with a missing key form groups too.
GroupBy_keepna(df, keys, metric) ==
  LET present == {KeyOf(df.rows[i], keys) : i \in 1..Len(df.rows)}
  IN [key \in present |->
        LET vals == GroupValues(df.rows, keys, metric, key)
        IN [sum |-> SumSeq(vals), n |-> Len(vals)]]

\* df.groupby(keys)[metric].sum() and .mean(): one entry per key combination,
\* the mean kept exact as the pair (sum, n); n = 0 is the NaN mean.
GroupBy(df, keys, metric) ==
  LET present == {KeyOf(df.rows[i], keys) :
                    i \in {j \in 1..Len(df.rows) : ~HasNullKey(df.rows[j], keys)}}
  IN [key \in present |->
        LET vals == GroupValues(df.rows, keys, metric, key)
        IN [sum |-> SumSeq(vals), n |-> Len(vals)]]

\* Series.unstack() of a two-key result: a table with one row label per
\* first key and one column label per second key, NaN where no group is.
NoGroup == [sum |-> 0, n |-> 0]

Unstack(g) ==
  LET rowKeys == {key[1] : key \in DOMAIN g}
      colKeys == {key[2] : key \in DOMAIN g}
  IN [cell \in rowKeys \X colKeys |->
        IF cell \in DOMAIN g THEN g[cell] ELSE NoGroup]

\* ------------------------------------------------------------ the inputs
\* The rows a source file is made of: two rows that differ only in the
\* spelling of the author type, missing cells, a day that does not exist,
\* a dated row without a content type, and stored engagement scores that agree or disagree with the counts.
RowPool ==
  { [Date |-> <<1, 1, 2024>>, Author_Type |-> <<"a", "i", " ">>,
     Content_Type |-> "Video", Likes |-> 1, Comments |-> 1, Shares |-> 0,
     Engagement_Score |-> 9],
    [Date |-> <<1, 1, 2024>>, Author_Type |-> <<"A", "I">>,
     Content_Type |-> "Video", Likes |-> 1, Comments |-> 1, Shares |-> 0,
     Engagement_Score |-> 9],
    [Date |-> <<2, 1, 2024>>, Author_Type |-> <<"h", "u", "m", "a", "n">>,
     Content_Type |-> "Blog", Likes |-> 2, Comments |-> NaN, Shares |-> 1,
     Engagement_Score |-> 9],
    [Date |-> <<31, 2, 2024>>, Author_Type |-> <<"H", "u", "m", "a", "n">>,
     Content_Type |-> "Blog", Likes |-> NaN, Comments |-> 0, Shares |-> 1,
     Engagement_Score |-> NaN],
    [Date |-> <<>>, Author_Type |-> NoText,
     Content_Type |-> "Video", Likes |-> 0, Comments |-> 2, Shares |-> 1,
     Engagement_Score |-> 7],
    [Date |-> <<3, 1, 2024>>, Author_Type |-> <<"a", "i">>,
     Content_Type |-> NoContent, Likes |-> 0, Comments |-> 0, Shares |-> 2,
     Engagement_Score |-> 6] }

\* The headers a source file can have: every column, any one column missing,
\* or a count and the stored score both missing.
MissingCases ==
  {{}} \cup {{c} : c \in Columns}
       \cup {{c, "Engagement_Score"} : c \in {"Likes", "Comments", "Shares"}}

Schemas == {Columns \ missing : missing \in MissingCases}

Tables == UNION {[1..n -> RowPool] : n \in 0..MaxRows}

\* pd.read_csv: the rows of the file under its header, labelled 0..n-1.
read_csv(schema, t) ==
  [cols  |-> schema,
   index |-> [i \in 1..Len(t) |-> i - 1],
   rows  |-> [i \in 1..Len(t) |-> [c \in schema |-> t[i][c]]]]

\* The places a copy of the source file can be, and where each program looks.
Paths == {"script_dir", "cwd", "desktop"}

possible_paths == <<"script_dir", "cwd", "cwd">>

csv_paths == <<"cwd", "desktop">>

\* At most one copy of the file is on disk, in the working directory or on
\* the desktop.
FsCases == {{}, {"cwd"}, {"desktop"}}

FirstExisting(paths, files) ==
  IF \E k \in 1..Len(paths) : paths[k] \in files
  THEN paths[CHOOSE k \in 1..Len(paths) :
               /\ paths[k] \in files
               /\ \A j \in 1..(k - 1) : paths[j] \notin files]
  ELSE "None"

\* ---------------------------------------------------------------- state
VARIABLES
  prog,                    \* which script runs: "dashboard" or "report"
  fs,                      \* the paths at which the source file exists
  csv,                     \* the table the source file holds, NoFrame without a file
  pc,                      \* where the run is
  df,                      \* the cleaned record set, NoFrame before a load
  start_date, end_date,    \* st.date_input's value, NoDate for None
  selected_author_types,   \* st.multiselect's value
  selected_content_types,  \* st.multiselect's value
  filtered,                \* the filtered view
  ui,                      \* the elements the dashboard has rendered
  engagement_by_author, trend, engagement_share,
  insights,                \* load_and_analyze_data's first result
  doc,                     \* the document create_analysis_report returned
  console,                 \* the lines the report generator has printed
  output_file              \* the state of the .docx on disk

dashVars ==
  <<df, start_date, end_date, selected_author_types, selected_content_types,
    filtered, ui, engagement_by_author, trend, engagement_share>>

reportVars == <<insights, doc, console, output_file>>

vars == <<prog, fs, csv, pc, dashVars, reportVars>>

NoChart == <<>>
NoDoc == [none |-> TRUE]

Init ==
  /\ prog \in {"dashboard", "report"}
  /\ fs \in FsCases
  /\ IF fs = {}
     THEN csv = NoFrame
     ELSE \E schema \in Schemas, t \in Tables : csv = read_csv(schema, t)
  /\ pc = "start"
  /\ df = NoFrame
  /\ start_date = NoDate
  /\ end_date = NoDate
  /\ selected_author_types = {}
  /\ selected_content_types = {}
  /\ filtered = NoFrame
  /\ ui = {}
  /\ engagement_by_author = NoChart
  /\ trend = NoChart
  /\ engagement_share = NoChart
  /\ insights = NoInsights
  /\ doc = NoDoc
  /\ console = <<>>
  /\ output_file = "absent"

\* ------------------------------------------------------------ dashboard
\* load_dataset(csv_path)
load_dataset == Clean(csv)

\* Series.min() / .max() of the Date column: missing dates are skipped,
\* NaT when there is none.
ValidDates(d) ==
  {d.rows[i]["Date"] : i \in 1..Len(d.rows)} \ {NaT}

MinDate(d) ==
  IF ValidDates(d) = {} THEN NaT
  ELSE CHOOSE x \in ValidDates(d) : \A y \in ValidDates(d) : x <= y

MaxDate(d) ==
  IF ValidDates(d) = {} THEN NaT
  ELSE CHOOSE x \in ValidDates(d) : \A y \in ValidDates(d) : x >= y

HasDateInput(d) == "Date" \in d.cols /\ MinDate(d) # NaT

\* sorted(df[c].dropna().unique().tolist()) if c in df.columns else []
Options(d, c) ==
  IF c \in d.cols
  THEN {d.rows[i][c] : i \in {j \in 1..Len(d.rows) : ~IsNullKey(c, d.rows[j][c])}}
  ELSE {}

\* The end of the range excluded.
DateMask_exclusive(d, sd, ed) ==
  IF sd # NoDate /\ ed # NoDate /\ "Date" \in d.cols
  THEN Loc(d, {i \in 1..Len(d.rows) :
                 /\ d.rows[i]["Date"] # NaT
                 /\ d.rows[i]["Date"] >= sd
                 /\ d.rows[i]["Date"] < ed})
  ELSE d

\* An empty selection read literally: nothing matches it.
IsinMask_literal(d, c, selected) ==
  IF c \in d.cols
  THEN Loc(d, {i \in 1..Len(d.rows) : d.rows[i][c] \in selected})
  ELSE d

\* A null date let through the range.
DateMask_keepnat(d, sd, ed) ==
  IF sd # NoDate /\ ed # NoDate /\ "Date" \in d.cols
  THEN Loc(d, {i \in 1..Len(d.rows) :
                 \/ d.rows[i]["Date"] = NaT
                 \/ /\ d.rows[i]["Date"] >= sd
                    /\ d.rows[i]["Date"] <= ed})
  ELSE d

\* The three masks of "Apply filters", each skipped when its guard is false.
DateMask(d, sd, ed) ==
  IF sd # NoDate /\ ed # NoDate /\ "Date" \in d.cols
  THEN Loc(d, {i \in 1..Len(d.rows) :
                 /\ d.rows[i]["Date"] # NaT
                 /\ d.rows[i]["Date"] >= sd
                 /\ d.rows[i]["Date"] <= ed})
  ELSE d

IsinMask(d, c, selected) ==
  IF selected # {} /\ c \in d.cols
  THEN Loc(d, {i \in 1..Len(d.rows) : d.rows[i][c] \in selected})
  ELSE d

ApplyFilters(d, sd, ed, selA, selC) ==
  IsinMask(IsinMask(DateMask(d, sd, ed), "Author_Type", selA),
           "Content_Type", selC)

\* The run of main from "Apply filters" on, for the widget values given.
Render(d, sd, ed, selA, selC) ==
  LET f == ApplyFilters(d, sd, ed, selA, selC)
      byAuthor == {"Author_Type", "Engagement_Score"} \subseteq f.cols
      byDate == {"Date", "Author_Type", "Engagement_Score"} \subseteq f.cols
      byContent == {"Content_Type", "Engagement_Score", "Author_Type"} \subseteq f.cols
  IN /\ df' = d
     /\ start_date' = sd
     /\ end_date' = ed
     /\ selected_author_types' = selA
     /\ selected_content_types' = selC
     /\ filtered' = f
     /\ IF Len(f.rows) = 0
        THEN /\ pc' = "nodata"
             /\ ui' = {"title", "caption", "sidebar", "warning"}
             /\ engagement_by_author' = NoChart
             /\ trend' = NoChart
             /\ engagement_share' = NoChart
        ELSE /\ pc' = "done"
             /\ ui' = {"title", "caption", "sidebar", "metrics", "source"}
                        \cup (IF byAuthor THEN {"bar", "pie"} ELSE {})
                        \cup (IF byDate THEN {"line"} ELSE {})
                        \cup (IF byContent THEN {"box"} ELSE {})
             /\ engagement_by_author' =
                  (IF byAuthor
                   THEN GroupBy(f, <<"Author_Type">>, "Engagement_Score")
                   ELSE NoChart)
             /\ trend' =
                  (IF byDate
                   THEN GroupBy(f, <<"Date", "Author_Type">>, "Engagement_Score")
                   ELSE NoChart)
             /\ engagement_share' =
                  (IF byAuthor
                   THEN LET g == GroupBy(f, <<"Author_Type">>, "Engagement_Score")
                        IN [key \in DOMAIN g |-> g[key].sum]
                   ELSE NoChart)

\* get_data when no candidate path exists: st.stop() ends the run.
DashboardNoFile ==
  /\ prog = "dashboard"
  /\ pc \in {"start", "stopped"}
  /\ FirstExisting(possible_paths, fs) = "None"
  /\ pc' = "stopped"
  /\ ui' = {"title", "caption"}
  /\ UNCHANGED <<prog, fs, csv, df, start_date, end_date,
                 selected_author_types, selected_content_types, filtered,
                 engagement_by_author, trend, engagement_share, reportVars>>

\* The first run of main in a session: every widget returns its default.
DashboardFirstRun ==
  /\ prog = "dashboard"
  /\ pc = "start"
  /\ FirstExisting(possible_paths, fs) # "None"
  /\ LET d == load_dataset
     IN Render(d,
               IF HasDateInput(d) THEN MinDate(d) ELSE NoDate,
               IF HasDateInput(d) THEN MaxDate(d) ELSE NoDate,
               Options(d, "Author_Type"),
               Options(d, "Content_Type"))
  /\ UNCHANGED <<prog, fs, csv, reportVars>>

\* A rerun after the user changed one widget (each change reruns the
\* script): get_data answers from its cache, the date input returns a range
\* inside [min_date, max_date], each multiselect a subset of its options.
DashboardRerun ==
  /\ prog = "dashboard"
  /\ pc \in {"done", "nodata", "error"}
  /\ \E selA \in SUBSET Options(df, "Author_Type"),
        selC \in SUBSET Options(df, "Content_Type") :
       /\ \/ selA = selected_author_types
          \/ selC = selected_content_types /\ pc # "error"
       /\ IF HasDateInput(df)
          THEN \E sd \in MinDate(df)..MaxDate(df) :
                 \E ed \in sd..MaxDate(df) :
                   /\ \/ <<sd, ed>> = <<start_date, end_date>>
                         /\ (selA = selected_author_types
                               \/ selC = selected_content_types)
                      \/ /\ selA = selected_author_types
                         /\ selC = selected_content_types
                   /\ Render(df, sd, ed, selA, selC)
          ELSE /\ selA = selected_author_types \/ selC = selected_content_types
               /\ Render(df, NoDate, NoDate, selA, selC)
  /\ UNCHANGED <<prog, fs, csv, reportVars>>

\* A rerun while the user has picked only the first day of a range:
\* date_input returns a 1-tuple, the unpacking at "start_date, end_date ="
\* raises, and the handler under __main__ shows the error.
DashboardRangeIncomplete ==
  /\ prog = "dashboard"
  /\ pc \in {"done", "nodata", "error"}
  /\ HasDateInput(df)
  /\ pc' = "error"
  /\ ui' = {"title", "caption", "sidebar", "error"}
  /\ start_date' = NoDate
  /\ end_date' = NoDate
  /\ filtered' = NoFrame
  /\ engagement_by_author' = NoChart
  /\ trend' = NoChart
  /\ engagement_share' = NoChart
  /\ UNCHANGED <<prog, fs, csv, df, selected_author_types,
                 selected_content_types, reportVars>>

\* ------------------------------------------------------- report generator
Ai == <<"A", "i">>
Human == <<"H", "u", "m", "a", "n">>

\* df[df['Author_Type'] == who]
OfAuthor(d, who) ==
  Loc(d, {i \in 1..Len(d.rows) : d.rows[i]["Author_Type"] = who})

\* Series.mean(): missing values skipped, the mean kept exact as (sum, n).
Mean(d, c) ==
  LET idx == {i \in 1..Len(d.rows) : d.rows[i][c] # NaN}
      vals == Pick([i \in 1..Len(d.rows) |-> d.rows[i][c]], idx)
  IN [sum |-> SumSeq(vals), n |-> Len(vals)]

\* a > b on two means; a comparison with a NaN mean is false.
Greater(a, b) == a.n > 0 /\ b.n > 0 /\ a.sum * b.n > b.sum * a.n

\* .sort_values(ascending=False).head(3): the groups fewer than three
\* groups beat.
Head3(g) ==
  LET top == {k \in DOMAIN g :
                Cardinality({j \in DOMAIN g : Greater(g[j], g[k])}) < 3}
  IN [k \in top |-> g[k]]

\* df['Date'].dt.to_period('M') as a grouping key.
WithMonth(d) ==
  Assign(d, "Date",
         LAMBDA r : IF r["Date"] = NaT THEN NaT ELSE r["Date"] \div 31)

\* The columns "Calculate key metrics" reads without a guard; a missing one
\* raises KeyError inside the try.
AnalysisColumns ==
  {"Author_Type", "Engagement_Score", "Likes", "Comments", "Shares",
   "Content_Type"}

Insights(d) ==
  LET ai_data == OfAuthor(d, Ai)
      human_data == OfAuthor(d, Human)
  IN [total_posts |-> Len(d.rows),
      ai_posts |-> Len(ai_data.rows),
      human_posts |-> Len(human_data.rows),
      ai_avg_engagement |-> Mean(ai_data, "Engagement_Score"),
      human_avg_engagement |-> Mean(human_data, "Engagement_Score"),
      ai_avg_likes |-> Mean(ai_data, "Likes"),
      human_avg_likes |-> Mean(human_data, "Likes"),
      ai_avg_comments |-> Mean(ai_data, "Comments"),
      human_avg_comments |-> Mean(human_data, "Comments"),
      ai_avg_shares |-> Mean(ai_data, "Shares"),
      human_avg_shares |-> Mean(human_data, "Shares"),
      content_performance |->
        Unstack(GroupBy(d, <<"Content_Type", "Author_Type">>, "Engagement_Score")),
      top_content_types |->
        Head3(GroupBy(d, <<"Content_Type">>, "Engagement_Score")),
      monthly_trend |->
        IF "Date" \in d.cols
        THEN Unstack(GroupBy(WithMonth(d), <<"Date", "Author_Type">>,
                             "Engagement_Score"))
        ELSE NoChart]

\* Duplicates dropped before the values are normalised.
ReportClean_dedup_first(raw) ==
  reset_index(ScoreStep(AuthorStep(ParseDateStep(drop_duplicates(raw)))))

\* "Clean data (same as dashboard)": the report generator's own copy of the
\* cleaning block.
ReportClean(raw) ==
  LET dated ==
        IF "Date" \in raw.cols
        THEN Assign(raw, "Date", LAMBDA r : to_datetime(r["Date"]))
        ELSE raw
      named ==
        IF "Author_Type" \in dated.cols
        THEN Assign(dated, "Author_Type",
                    LAMBDA r : title(strip(astype_str(r["Author_Type"]))))
        ELSE dated
      scored ==
        IF {"Likes", "Comments", "Shares"} \subseteq named.cols
        THEN Assign(named, "Engagement_Score",
                    LAMBDA r : fillna0(r["Likes"]) + fillna0(r["Comments"]) * 2
                                 + fillna0(r["Shares"]) * 3)
        ELSE named
  IN reset_index(drop_duplicates(scored))

\* Does load_and_analyze_data reach "return insights, df"?
LoadSucceeds ==
  /\ FirstExisting(csv_paths, fs) # "None"
  /\ AnalysisColumns \subseteq ReportClean(csv).cols

\* main up to the test of insights: load_and_analyze_data returned.
ReportLoad ==
  /\ prog = "report"
  /\ pc = "start"
  /\ IF LoadSucceeds
     THEN /\ df' = ReportClean(csv)
          /\ insights' = Insights(ReportClean(csv))
          /\ console' = <<"Loading and analyzing data...">>
     ELSE /\ df' = NoFrame
          /\ insights' = NoInsights
          /\ console' = <<"Loading and analyzing data...", "Error loading data">>
  /\ pc' = "loaded"
  /\ UNCHANGED <<prog, fs, csv, start_date, end_date, selected_author_types,
                 selected_content_types, filtered, ui, engagement_by_author,
                 trend, engagement_share, doc, output_file>>

\* if insights is None: print(...); return
ReportGiveUp ==
  /\ prog = "report"
  /\ pc = "loaded"
  /\ insights = NoInsights
  /\ console' = Append(console, "Failed to load data")
  /\ pc' = "exited"
  /\ UNCHANGED <<prog, fs, csv, dashVars, insights, doc, output_file>>

\* The side a passage of the report takes: each passage tests
\* ai_engagement > human_engagement for itself.
Finding1Side(ins) ==
  IF Greater(ins.ai_avg_engagement, ins.human_avg_engagement)
  THEN "AI" ELSE "Human"

ImplicationsSide(ins) ==
  IF Greater(ins.ai_avg_engagement, ins.human_avg_engagement)
  THEN "AI" ELSE "Human"

Recommendation1Side(ins) ==
  IF Greater(ins.ai_avg_engagement, ins.human_avg_engagement)
  THEN "AI" ELSE "Human"

\* The conclusion with >= where the code has >.
ConclusionSide_on_tie(ins) ==
  IF ~Greater(ins.human_avg_engagement, ins.ai_avg_engagement)
       /\ ins.ai_avg_engagement.n > 0 /\ ins.human_avg_engagement.n > 0
  THEN "AI" ELSE "Human"

ConclusionSide(ins) ==
  IF Greater(ins.ai_avg_engagement, ins.human_avg_engagement)
  THEN "AI" ELSE "Human"

\* The branching passages of the document create_analysis_report assembles.
Document(ins) ==
  [total_posts |-> ins.total_posts,
   finding1 |-> Finding1Side(ins),
   implications |-> ImplicationsSide(ins),
   recommendation1 |-> Recommendation1Side(ins),
   conclusion |-> ConclusionSide(ins)]

\* create_analysis_report reads df["Date"].min().strftime(...): KeyError
\* without the column, ValueError on NaT.
CreateSucceeds == HasDateInput(df)

\* create_analysis_report returned the document.
ReportCreate ==
  /\ prog = "report"
  /\ pc = "loaded"
  /\ insights # NoInsights
  /\ CreateSucceeds
  /\ console' = Append(console, "Creating analysis report...")
  /\ pc' = "assembled"
  /\ doc' = Document(insights)
  /\ UNCHANGED <<prog, fs, csv, dashVars, insights, output_file>>

\* The exception swallowed: main goes on to save what was assembled.
ReportCreateRaises_swallowed ==
  /\ prog = "report"
  /\ pc = "loaded"
  /\ insights # NoInsights
  /\ ~CreateSucceeds
  /\ console' = Append(console, "Creating analysis report...")
  /\ pc' = "assembled"
  /\ UNCHANGED <<prog, fs, csv, dashVars, insights, doc, output_file>>

\* create_analysis_report raised: the exception leaves main.
ReportCreateRaises ==
  /\ prog = "report"
  /\ pc = "loaded"
  /\ insights # NoInsights
  /\ ~CreateSucceeds
  /\ console' = Append(console, "Creating analysis report...")
  /\ pc' = "crashed"
  /\ UNCHANGED <<prog, fs, csv, dashVars, insights, doc, output_file>>

\* doc.save(output_path) and the closing prints.
ReportSave ==
  /\ prog = "report"
  /\ pc = "assembled"
  /\ output_file' = "written"
  /\ console' = Append(console, "Analysis report saved")
  /\ pc' = "saved"
  /\ UNCHANGED <<prog, fs, csv, dashVars, insights, doc>>

Next ==
  \/ DashboardNoFile
  \/ DashboardFirstRun
  \/ DashboardRerun
  \/ DashboardRangeIncomplete
  \/ ReportLoad
  \/ ReportGiveUp
  \/ ReportCreate
  \/ ReportCreateRaises
  \/ ReportSave

Spec == Init /\ [][Next]_vars

\* =================================================================== claims
Loaded == df # NoFrame

RowSet(d) == {d.rows[i] : i \in 1..Len(d.rows)}

NoTwoRowsEqual(d) ==
  \A i, j \in 1..Len(d.rows) : i # j => d.rows[i] # d.rows[j]

DenseIndex(d) ==
  /\ Len(d.index) = Len(d.rows)
  /\ \A i \in 1..Len(d.rows) : d.index[i] = i - 1

\* The table as it stands when drop_duplicates is called.
BeforeDedup == ScoreStep(AuthorStep(ParseDateStep(csv)))

\* out is made of the first occurrences of the rows of src, in src's order.
FirstOccurrencesInOrder(out, src) ==
  \E f \in [1..Len(out) -> 1..Len(src)] :
    /\ \A a, b \in 1..Len(out) : a < b => f[a] < f[b]
    /\ \A a \in 1..Len(out) :
         /\ out[a] = src[f[a]]
         /\ \A j \in 1..(f[a] - 1) : src[j] # src[f[a]]

\* C1 as stated: the cleaned record set has no two equal rows, is made of
\* first occurrences in the original order, is indexed 0..n-1, and has as
\* many rows as the raw input has distinct rows.
C1_SizeIsDistinctRawRows ==
  Loaded =>
    /\ NoTwoRowsEqual(df)
    /\ DenseIndex(df)
    /\ FirstOccurrencesInOrder(df.rows, BeforeDedup.rows)
    /\ Len(df.rows) = Cardinality(RowSet(csv))

\* C1 as amended: the cleaned record set has no two equal rows, is made of
\* the first occurrences of the cleaned rows in the original order, is
\* indexed 0..n-1, and n is the number of distinct rows of the table after
\* the date, author-type and score steps, which is at most the number of
\* distinct raw rows.
C1_DedupAfterCleaning ==
  Loaded =>
    /\ NoTwoRowsEqual(df)
    /\ DenseIndex(df)
    /\ FirstOccurrencesInOrder(df.rows, BeforeDedup.rows)
    /\ Len(df.rows) = Cardinality(RowSet(BeforeDedup))
    /\ Len(df.rows) <= Cardinality(RowSet(csv))

\* Two raw rows that differ only in the spelling of the author type have
\* been cleaned into one.
C1_Witness ==
  /\ Loaded
  /\ Len(df.rows) = 1
  /\ Cardinality(RowSet(csv)) = 2

Counts == {"Likes", "Comments", "Shares"}

ZeroIfMissing(x) == IF x = NaN THEN 0 ELSE x

CountsOf(d) ==
  {<<d.rows[i]["Likes"], d.rows[i]["Comments"], d.rows[i]["Shares"]>> :
     i \in 1..Len(d.rows)}

\* C2: when the input has Likes, Comments and Shares, every cleaned row has
\* Engagement_Score = L + 2*C + 3*S with a missing count taken as 0, and the
\* stored counts are the input's, a missing one still missing.
C2_ScoreFormula ==
  (Loaded /\ Counts \subseteq csv.cols) =>
    /\ \A i \in 1..Len(df.rows) :
         df.rows[i]["Engagement_Score"] =
           ZeroIfMissing(df.rows[i]["Likes"])
             + 2 * ZeroIfMissing(df.rows[i]["Comments"])
             + 3 * ZeroIfMissing(df.rows[i]["Shares"])
    /\ CountsOf(df) = CountsOf(csv)

\* A cleaned row with a missing count, a positive score and a stored score
\* in the input that disagreed with the counts.
C2_Witness ==
  /\ Loaded
  /\ Counts \subseteq csv.cols
  /\ \E i \in 1..Len(df.rows) :
       /\ df.rows[i]["Comments"] = NaN
       /\ df.rows[i]["Engagement_Score"] = 5
  /\ "Engagement_Score" \in csv.cols
  /\ \E j \in 1..Len(csv.rows) : csv.rows[j]["Engagement_Score"] = 9

\* ---- the filter
Ran == prog = "dashboard" /\ pc \in {"done", "nodata"}

DateApplied == start_date # NoDate /\ end_date # NoDate /\ "Date" \in df.cols
AuthorApplied == selected_author_types # {} /\ "Author_Type" \in df.cols
ContentApplied == selected_content_types # {} /\ "Content_Type" \in df.cols

InRange(r) ==
  r["Date"] # NaT /\ start_date <= r["Date"] /\ r["Date"] <= end_date

PassesAuthor(r) == AuthorApplied => r["Author_Type"] \in selected_author_types
PassesContent(r) == ContentApplied => r["Content_Type"] \in selected_content_types

Labels(d) == {d.index[i] : i \in 1..Len(d.index)}

\* C3: with a date range applied, every row of the result has its date in
\* [start, end], both ends included, and every input row with its date in
\* the range that passes the author-type and content-type constraints is in
\* the result.
C3_DateRangeInclusive ==
  (Ran /\ DateApplied) =>
    /\ \A k \in 1..Len(filtered.rows) : InRange(filtered.rows[k])
    /\ \A i \in 1..Len(df.rows) :
         (InRange(df.rows[i]) /\ PassesAuthor(df.rows[i]) /\ PassesContent(df.rows[i]))
           => df.index[i] \in Labels(filtered)

\* A range narrower than the data: a row dated on the last day of the range
\* is kept and a row dated outside it is dropped.
C3_Witness ==
  /\ Ran
  /\ DateApplied
  /\ \E k \in 1..Len(filtered.rows) : filtered.rows[k]["Date"] = end_date
  /\ \E i \in 1..Len(df.rows) :
       df.rows[i]["Date"] # NaT /\ ~InRange(df.rows[i])

\* C4: a constraint that is omitted or empty restricts nothing: the result
\* holds exactly the rows that pass the constraints that are set, and with
\* none set it is the input, row for row and in order.
C4_EmptyMeansNoRestriction ==
  Ran =>
    /\ Labels(filtered) =
         {df.index[i] : i \in {j \in 1..Len(df.rows) :
            /\ (start_date # NoDate /\ "Date" \in df.cols) => InRange(df.rows[j])
            /\ (selected_author_types # {} /\ "Author_Type" \in df.cols)
                 => df.rows[j]["Author_Type"] \in selected_author_types
            /\ (selected_content_types # {} /\ "Content_Type" \in df.cols)
                 => df.rows[j]["Content_Type"] \in selected_content_types}}
    /\ (start_date = NoDate /\ selected_author_types = {}
          /\ selected_content_types = {}) => filtered = df

\* Everything deselected and no date range: the result is the whole,
\* non-empty input.
C4_Witness ==
  /\ Ran
  /\ start_date = NoDate
  /\ selected_author_types = {}
  /\ selected_content_types = {}
  /\ Options(df, "Author_Type") # {}
  /\ Len(df.rows) = 2
  /\ filtered = df

\* C5: the result of the filter is a sub-sequence of the input: its labels
\* are labels of the input in increasing order, none twice, and each row is
\* the input's row under that label.
C5_SubSequence ==
  Ran =>
    /\ Len(filtered.index) = Len(filtered.rows)
    /\ \A a, b \in 1..Len(filtered.index) :
         a < b => filtered.index[a] < filtered.index[b]
    /\ \A k \in 1..Len(filtered.rows) :
         /\ filtered.index[k] \in Labels(df)
         /\ filtered.rows[k] = df.rows[filtered.index[k] + 1]
    /\ filtered.cols = df.cols

\* Of two input rows only the second is kept, under its own label.
C5_Witness ==
  /\ Ran
  /\ Len(df.rows) = 2
  /\ filtered.index = <<1>>

\* ---- the aggregates
RECURSIVE SumOver(_, _, _)
SumOver(d, idx, metric) ==
  IF idx = {} THEN 0
  ELSE LET i == CHOOSE x \in idx : TRUE
       IN d.rows[i][metric] + SumOver(d, idx \ {i}, metric)

Combination(r, keys) == [k \in 1..Len(keys) |-> r[keys[k]]]

\* The rows of d whose keys are all present, and those among them that
\* have the combination key and a metric value.
Keyed(d, keys) ==
  {i \in 1..Len(d.rows) :
     \A k \in 1..Len(keys) : ~IsNullKey(keys[k], d.rows[i][keys[k]])}

Members(d, keys, key, metric) ==
  {i \in Keyed(d, keys) :
     Combination(d.rows[i], keys) = key /\ d.rows[i][metric] # NaN}

Occurring(d, keys) == {Combination(d.rows[i], keys) : i \in Keyed(d, keys)}

\* g[key] is the sum and the count of the metric over the rows with key.
ReducesGroup(g, d, keys, key, metric) ==
  /\ g[key].sum = SumOver(d, Members(d, keys, key, metric), metric)
  /\ g[key].n = Cardinality(Members(d, keys, key, metric))

\* g has one entry per combination that occurs in d, and no other.
IsGrouping(g, d, keys, metric) ==
  /\ DOMAIN g = Occurring(d, keys)
  /\ \A key \in DOMAIN g : ReducesGroup(g, d, keys, key, metric)

\* t is the pivot of the two-key grouping of d: a cell per pair of an
\* occurring first key and an occurring second key, null where the pair
\* occurs in no row.
IsPivot(t, d, keys, metric) ==
  /\ DOMAIN t = {key[1] : key \in Occurring(d, keys)}
                  \X {key[2] : key \in Occurring(d, keys)}
  /\ \A cell \in DOMAIN t :
       IF cell \in Occurring(d, keys)
       THEN ReducesGroup(t, d, keys, cell, metric)
       ELSE t[cell].n = 0

Analysed == prog = "report" /\ insights # NoInsights

Score == "Engagement_Score"

ScoresOf(d) == {d.rows[i][Score] : i \in 1..Len(d.rows)}

\* C7 as stated: the cleaned record set has an Engagement_Score column
\* exactly when Likes, Comments and Shares are all columns of the input.
C7_ScoreIffCounts ==
  Loaded => (Score \in df.cols <=> Counts \subseteq csv.cols)

\* C7 as amended: the cleaned record set has an Engagement_Score column
\* exactly when Likes, Comments and Shares are all columns of the input or
\* the input has an Engagement_Score column of its own; in the second case,
\* when one of the three is absent, the input's scores are passed through
\* as they are and are not checked against the counts.
C7_ScoreIffCountsOrStored ==
  Loaded =>
    /\ Score \in df.cols <=> (Counts \subseteq csv.cols \/ Score \in csv.cols)
    /\ (Score \in csv.cols /\ ~(Counts \subseteq csv.cols)) =>
         ScoresOf(df) = ScoresOf(csv)

\* A stored score survives the cleaning of an input without Likes.
C7_Witness ==
  /\ Loaded
  /\ "Likes" \notin csv.cols
  /\ Score \in df.cols
  /\ 9 \in ScoresOf(df)

\* ---- errors
FoundBy(program) ==
  IF program = "dashboard"
  THEN FirstExisting(possible_paths, fs) # "None"
  ELSE FirstExisting(csv_paths, fs) # "None"

\* C8: whatever columns the source file lacks, loading it is not fatal at
\* either call site: once the file is found, the dashboard has its record
\* set and the report generator has its insights and record set, and no
\* error is reported.
C8_MissingColumnsNonFatal ==
  /\ (prog = "dashboard" /\ FoundBy("dashboard") /\ pc # "start") => Loaded
  /\ (prog = "report" /\ FoundBy("report") /\ pc # "start") =>
       /\ insights # NoInsights
       /\ Loaded
       /\ \A k \in 1..Len(console) : console[k] # "Error loading data"

Surfaced ==
  IF prog = "dashboard"
  THEN ui \cap {"error", "warning"} # {}
  ELSE \E k \in 1..Len(console) :
         console[k] \in {"Error loading data", "Failed to load data"}

\* C9: when no candidate path exists the run ends without a record set and
\* the user is told so, at both call sites.
C9_MissingFileSurfaced ==
  (~FoundBy(prog) /\ pc \in {"stopped", "exited"}) =>
    /\ ~Loaded
    /\ insights = NoInsights
    /\ Surfaced

\* C10: the output document exists only once loading, analysis and assembly
\* have all succeeded; a run in which load_and_analyze_data returned no
\* insights or create_analysis_report raised leaves no output file.
C10_NoOutputOnFailure ==
  /\ output_file = "written" =>
       /\ pc = "saved"
       /\ insights # NoInsights
       /\ Loaded
       /\ "Date" \in df.cols
       /\ \E i \in 1..Len(df.rows) : df.rows[i]["Date"] # NaT
  /\ (prog = "report" /\ pc \in {"exited", "crashed"}) => output_file = "absent"
  /\ (prog = "report" /\ pc # "start" /\ insights = NoInsights) =>
       output_file = "absent"

\* The assembly raised on a record set without any valid date and nothing
\* was written.
C10_Witness ==
  /\ prog = "report"
  /\ pc = "crashed"
  /\ insights # NoInsights
  /\ output_file = "absent"

\* ---- the two copies of the cleaning block
\* C11: the report generator's cleaning block and the dashboard's
\* load_dataset yield the same record set for every source table and every
\* header, and the record set the report generator analyses is the one the
\* dashboard would load.
C11_SamePipeline ==
  /\ csv # NoFrame => ReportClean(csv) = load_dataset
  /\ (prog = "report" /\ Loaded) => df = load_dataset

\* The report generator loaded a table whose two raw rows become equal only
\* once the author type is normalised, and kept one of them.
C11_Witness ==
  /\ prog = "report"
  /\ Loaded
  /\ Cardinality(RowSet(csv)) = 2
  /\ Len(df.rows) = 1
  /\ df.rows[1]["Author_Type"] = Ai
  /\ df.rows[1][Score] = 3

\* ---- the wording of the report
AiRows == {i \in 1..Len(df.rows) : df.rows[i]["Author_Type"] = Ai}
HumanRows == {i \in 1..Len(df.rows) : df.rows[i]["Author_Type"] = Human}

\* mean(Ai) - mean(Human), scaled by both counts; 0 when a side has no row.
MeanGap ==
  SumOver(df, AiRows, Score) * Cardinality(HumanRows)
    - SumOver(df, HumanRows, Score) * Cardinality(AiRows)

AiMeanHigher == AiRows # {} /\ HumanRows # {} /\ MeanGap > 0

Assembled == prog = "report" /\ pc \in {"assembled", "saved"}

\* C12: in one report the four branching passages take the same side: the
\* AI wording exactly when the mean engagement of the AI posts is strictly
\* greater than that of the human posts, the human wording otherwise, a tie
\* included.
C12_PassagesAgree ==
  Assembled =>
    LET side == IF AiMeanHigher THEN "AI" ELSE "Human"
    IN /\ doc.finding1 = side
       /\ doc.implications = side
       /\ doc.recommendation1 = side
       /\ doc.conclusion = side

\* A report on a tie between the two means, worded for the human posts.
C12_Witness ==
  /\ Assembled
  /\ AiRows # {}
  /\ HumanRows # {}
  /\ MeanGap = 0
  /\ doc.finding1 = "Human"
  /\ doc.conclusion = "Human"

\* A report worded for the AI posts.
C12_AiSideReached ==
  Assembled /\ MeanGap > 0 /\ doc.conclusion = "AI"

\* ---- the default state of the filters
NullDateRows == {i \in 1..Len(df.rows) : df.rows[i]["Date"] = NaT}

\* The widgets hold their defaults: the full span of the dates and every
\* option of both selections.
DefaultFilters ==
  /\ Ran
  /\ DateApplied
  /\ start_date = MinDate(df)
  /\ end_date = MaxDate(df)
  /\ selected_author_types = Options(df, "Author_Type")
  /\ selected_content_types = Options(df, "Content_Type")

\* The rows the default content-type selection rejects: those without a
\* content type, when some row has one.
NoContentRows ==
  IF "Content_Type" \in df.cols /\ Options(df, "Content_Type") # {}
  THEN {i \in 1..Len(df.rows) : df.rows[i]["Content_Type"] = NoContent}
  ELSE {}

\* C13 as stated: with a date range applied no row with a null date is in
\* the result; in the default state the result is the loaded set without
\* its null-date rows, and is the loaded set only when no date is null.
C13_DefaultDropsNullDates ==
  /\ (Ran /\ DateApplied) =>
       \A k \in 1..Len(filtered.rows) : filtered.rows[k]["Date"] # NaT
  /\ DefaultFilters =>
       /\ filtered = Loc(df, (1..Len(df.rows)) \ NullDateRows)
       /\ filtered = df => NullDateRows = {}

\* C13 as amended: with a date range applied no row with a null date is in
\* the result; in the default state the result is the loaded set without
\* its null-date rows and without its rows that lack a content type (these
\* only when some row has one), and is the loaded set only when no date is
\* null.
C13_DefaultDropsNullDatesAndContent ==
  /\ (Ran /\ DateApplied) =>
       \A k \in 1..Len(filtered.rows) : filtered.rows[k]["Date"] # NaT
  /\ DefaultFilters =>
       /\ filtered.rows =
            Pick(df.rows, (1..Len(df.rows)) \ (NullDateRows \cup NoContentRows))
       /\ filtered.index =
            Pick(df.index, (1..Len(df.rows)) \ (NullDateRows \cup NoContentRows))
       /\ filtered = df => NullDateRows = {}

\* The default state on a loaded set with a dated row and a row whose date
\* did not parse: only the dated row is shown.
C13_Witness ==
  /\ DefaultFilters
  /\ Len(df.rows) = 2
  /\ Cardinality(NullDateRows) = 1
  /\ Len(filtered.rows) = 1
  /\ filtered.rows[1]["Date"] # NaT

====
